---- MODULE Spec2Model ----
(***************************************************************************)
(* Model of leaflet.offline.js (src/unnamed/part_000): the cache-aware     *)
(* tile layer L.TileLayer.Offline, and the bulk saver L.Control.SaveTiles. *)
(*                                                                         *)
(* Every asynchronous step of the code (a promise callback, an image load  *)
(* or error event, an IndexedDB request callback, a timer) is one action.  *)
(* The synchronous code that runs inside such a callback is part of that   *)
(* action.                                                                 *)
(***************************************************************************)
EXTENDS Integers, Sequences, FiniteSets, TLC

\* ------------------------------------------------------------------ bounds
\* number of createTile calls made on the layer
MaxCalls == 2
\* longest tile list a single bulk job is given (the batch size is 10)
MaxTiles == 11
\* number of clicks on the save button in the overlapping-jobs specification
MaxJobs == 2
\* longest short tile list in the overlapping-jobs specification
MaxJobTiles == 1

\* the tile key the layer is asked for (every createTile call is for this tile)
Keys == {"k1"}
Calls == 1..MaxCalls
Jobs == 1..MaxJobs

VARIABLES
    options,      \* the base layer's options: useCache, saveToCache, cacheDB (TRUE: set)
    store,        \* the object store 'offline_tiles': key -> "absent" | "empty" | "rec"
    tile,         \* one record per createTile call: the <img> and what the call did
    job,          \* one record per _saveTilesImpl invocation
    tilesforSave, \* this._tilesforSave: the job that computed it and its length
    clicksLeft,   \* clicks on the save button still to come
    lens,         \* the lengths of the tile lists still to be saved (each click saves
                  \* another area, so another list)
    enum,         \* one _calculateTilesForArea call: its inputs and what it returned
    keyc,         \* one layer and one tile: the URL template, the coordinates and
                  \* the key _getTileKey gave for them
    idb,          \* window.indexedDB: "ok", or "absent" (DBManager.open rejects)
    dbm,          \* one DBManager: _db, its open() calls and the open requests issued
    rm,           \* the removal asked for with the remove button
    bt,           \* one tile stored by a bulk save, then asked for by createTile
    dl            \* one downloadCurrentMapArea call (map_layer_toggle.js)

vars == <<options, store, tile, job, tilesforSave, clicksLeft, lens, enum, keyc, idb, dbm, rm,
         bt, dl>>
fetchVars == <<options, store, tile>>
bulkVars == <<job, tilesforSave, clicksLeft, lens>>
\* the state that no step of the layer or of a bulk job changes
auxVars == <<enum, keyc, idb, dbm, rm, bt, dl>>

\* ------------------------------------------------------- L.TileLayer.Offline

\* a createTile call that has not been made yet
NoTile ==
    [st |-> "new", key |-> "k1", read |-> "none", src |-> "none", load |-> "none",
     handlers |-> FALSE, wb |-> "none", fetched |-> {}, hit |-> FALSE,
     coldMiss |-> FALSE, readRejected |-> FALSE, netFailed |-> FALSE,
     afterSave |-> FALSE, fallbackReads |-> 0,
     fallbackHit |-> FALSE, puts |-> 0, requests |-> 0, doneOk |-> 0, doneErr |-> 0]

\* _getTileFromCache: null without a cacheDB; otherwise the stored entry's url when
\* the entry exists and its url is non-empty; a rejected get is caught and gives null
GetTileFromCache(k, rejected) ==
    IF ~options.cacheDB THEN "null"
    ELSE IF rejected THEN "null"
    ELSE IF store[k] = "rec" THEN "url"
    ELSE "null"

\* L.TileLayer.prototype.createTile (Leaflet): creates the <img>, registers the
\* load and error listeners that call done, and sets tile.src = getTileUrl(coords),
\* which starts a network request for the tile; afterSave records whether a
\* bulk save had been started on the layer by then
BaseCreateTile(t, k) ==
    [t EXCEPT !.st = "created", !.key = k, !.src = "net", !.load = "pending",
              !.fetched = @ \cup {"base"},
              !.afterSave = \E j \in Jobs : job[j].st # "none"]

\* createTile: the base tile, then with useCache the first cache read is started
CreateTile(c, k) ==
    /\ tile[c].st = "new"
    /\ \A d \in Calls : d < c => tile[d].st = "created"
    /\ LET t == BaseCreateTile(tile[c], k) IN
       tile' = [tile EXCEPT ![c] =
                    IF options.useCache THEN [t EXCEPT !.read = "first"] ELSE t]
    /\ UNCHANGED <<options, store, bulkVars, auxVars>>

\* _loadTileAndCache installing its handlers whenever saveToCache is set
LoadTileAndCacheNoDbCheck(t) ==
    [t EXCEPT !.src = "net", !.load = "pending", !.fetched = @ \cup {"load"},
              !.handlers = options.saveToCache]

\* _loadTileAndCache: tile.src = getTileUrl(coords) (a network request); with
\* saveToCache and a cacheDB it installs tile.onload and tile.onerror
LoadTileAndCache(t) ==
    [t EXCEPT !.src = "net", !.load = "pending", !.fetched = @ \cup {"load"},
              !.handlers = (options.saveToCache /\ options.cacheDB)]

\* the .then/.catch of createTile's cache read; the get of a cacheDB rejects
\* when its open does (IndexedDB absent), and may reject when a request fails
CacheReadResolve(c) ==
    /\ tile[c].read = "first"
    /\ \E rejected \in BOOLEAN :
         /\ rejected => options.cacheDB
         /\ (options.cacheDB /\ idb = "absent") => rejected
         /\ LET t == [tile[c] EXCEPT !.read = "none", !.readRejected = rejected] IN
            tile' = [tile EXCEPT ![c] =
                IF GetTileFromCache(t.key, rejected) = "url"
                THEN [t EXCEPT !.hit = TRUE, !.src = "cached", !.load = "pending"]
                ELSE LoadTileAndCache([t EXCEPT !.coldMiss =
                        (options.cacheDB /\ ~rejected /\ store[t.key] = "absent")])]
    /\ UNCHANGED <<options, store, bulkVars, auxVars>>

\* _saveTileToCache starts: a new Image with src = tileUrl (a network request)
SaveTileToCache(t) ==
    [t EXCEPT !.wb = "img", !.fetched = @ \cup {"wb"}]

\* the done(null, tile) calls of a load event: the base listener's, and the
\* installed tile.onload's
DoneOnLoad(t) ==
    [t EXCEPT !.doneOk = @ + (IF t.handlers THEN 2 ELSE 1)]

\* the tile's load event: Leaflet's listener calls done(null, tile); the installed
\* tile.onload starts the write-back and calls done(null, tile)
TileLoad(c) ==
    /\ tile[c].load = "pending"
    /\ LET t == [tile[c] EXCEPT !.load = "loaded"] IN
       tile' = [tile EXCEPT ![c] =
                    DoneOnLoad(IF t.handlers THEN SaveTileToCache(t) ELSE t)]
    /\ UNCHANGED <<options, store, bulkVars, auxVars>>

\* the tile's error event (a failed network request): Leaflet's listener calls
\* done(e, tile); the installed tile.onerror starts the fallback cache read
TileError(c) ==
    /\ tile[c].load = "pending"
    /\ tile[c].src = "net"
    /\ LET t == [tile[c] EXCEPT !.load = "failed", !.doneErr = @ + 1,
                                !.netFailed = @ \/ ("load" \in tile[c].fetched)] IN
       tile' = [tile EXCEPT ![c] =
                    IF t.handlers
                    THEN [t EXCEPT !.read = "fallback", !.fallbackReads = @ + 1]
                    ELSE t]
    /\ UNCHANGED <<options, store, bulkVars, auxVars>>

\* the .then of tile.onerror's cache read: the cached url is shown, or the error
\* is passed on (originalOnError is null: Leaflet registers listeners)
FallbackReadResolve(c) ==
    /\ tile[c].read = "fallback"
    /\ \E rejected \in BOOLEAN :
         /\ rejected => options.cacheDB
         /\ (options.cacheDB /\ idb = "absent") => rejected
         /\ LET t == [tile[c] EXCEPT !.read = "none"] IN
            tile' = [tile EXCEPT ![c] =
                IF GetTileFromCache(t.key, rejected) = "url"
                THEN [t EXCEPT !.fallbackHit = TRUE, !.src = "cached", !.load = "pending"]
                ELSE [t EXCEPT !.doneErr = @ + 1]]
    /\ UNCHANGED <<options, store, bulkVars, auxVars>>

\* a write-back whose rejection is passed to the caller as done(err, tile)
WriteBackRejectedToCaller(t) ==
    [t EXCEPT !.wb = "failed", !.doneErr = @ + 1]

\* what the caller is told when the write-back promise rejects: nothing (the
\* .catch of tile.onload only logs)
WriteBackRejected(t) ==
    [t EXCEPT !.wb = "failed"]

\* the write-back image's load event: canvas, toDataURL, then cacheDB.put; a
\* throwing canvas call rejects the promise. DBManager.put opens the database
\* first: when the open rejects no request reaches the store and the put
\* rejects, otherwise store.put is requested
WbImgLoad(c) ==
    /\ tile[c].wb = "img"
    /\ \E outcome \in {"canvasThrows", "openRejects", "requested"} :
         /\ outcome = "requested" => idb = "ok"
         /\ tile' = [tile EXCEPT ![c] =
                    IF outcome = "canvasThrows" THEN WriteBackRejected(@)
                    ELSE IF outcome = "openRejects"
                    THEN WriteBackRejected([@ EXCEPT !.puts = @ + 1])
                    ELSE [@ EXCEPT !.wb = "put", !.puts = @ + 1, !.requests = @ + 1]]
    /\ UNCHANGED <<options, store, bulkVars, auxVars>>

\* the write-back image's error event: img.onerror = reject
WbImgError(c) ==
    /\ tile[c].wb = "img"
    /\ tile' = [tile EXCEPT ![c] = WriteBackRejected(@)]
    /\ UNCHANGED <<options, store, bulkVars, auxVars>>

\* the put request succeeds: the record is in the store. A put requested while
\* a clear is pending ends after the clear.
WbPutResolve(c) ==
    /\ tile[c].wb = "put"
    /\ rm.st = "clearing" => c \in rm.ahead
    /\ tile' = [tile EXCEPT ![c].wb = "saved"]
    /\ store' = [store EXCEPT ![tile[c].key] = "rec"]
    /\ UNCHANGED <<options, bulkVars, auxVars>>

\* the put request fails
WbPutReject(c) ==
    /\ tile[c].wb = "put"
    /\ rm.st = "clearing" => c \in rm.ahead
    /\ tile' = [tile EXCEPT ![c] = WriteBackRejected(@)]
    /\ UNCHANGED <<options, store, bulkVars, auxVars>>


\* ----------------------------------------------------- L.Control.SaveTiles

\* processBatch(0, 10): the batch size
BatchSize == 10

Min(a, b) == IF a < b THEN a ELSE b

\* a progress value computed from the tiles still to do instead of those done
ProgressRemaining(count, total) ==
    IF total = 0 THEN "NaN" ELSE (200 * (total - count) + total) \div (2 * total)

\* Math.round(count / total * 100); 0 / 0 is NaN
Progress(count, total) ==
    IF total = 0 THEN "NaN" ELSE (200 * count + total) \div (2 * total)

\* a _saveTilesImpl invocation that has not happened
NoJob ==
    [st |-> "none", total |-> 0, next |-> 0, timer |-> FALSE, loading |-> 0,
     putting |-> 0, count |-> 0, readForeign |-> FALSE, start |-> << >>,
     nProgress |-> 0, lastProgress |-> 0, complete |-> << >>,
     lastEvent |-> "none"]

\* processBatch(startIdx, batchSize) of job j: an image load is started for each
\* tile this._tilesforSave[i], startIdx <= i < endIdx; an index past the end of
\* the current list gives undefined, and reading tile.z throws: the callback ends
\* there and no further batch is scheduled
ProcessBatch(jr, j, startIdx, list) ==
    LET endIdx == Min(startIdx + BatchSize, jr.total)
        readable == IF list.len < startIdx THEN startIdx ELSE list.len
        reached == Min(endIdx, readable)
    IN  [jr EXCEPT !.loading = @ + (reached - startIdx),
                   !.next = reached,
                   !.readForeign = @ \/ (list.job # j /\ endIdx > startIdx),
                   !.st = IF reached < endIdx THEN "threw" ELSE @,
                   !.timer = (reached = endIdx /\ endIdx < jr.total)]

\* a _saveTilesImpl that leaves the layer's saveToCache option as it was
SaveTilesFlagUntouched(j, n) ==
    /\ clicksLeft > 0
    /\ job[j].st = "none"
    /\ \A i \in Jobs : i < j => job[i].st # "none"
    /\ n \in lens
    /\ clicksLeft' = clicksLeft - 1
    /\ lens' = lens \ {n}
    /\ tilesforSave' = [job |-> j, len |-> n]
    /\ options' = [options EXCEPT !.cacheDB = TRUE]
    /\ LET started == [NoJob EXCEPT !.st = "running", !.total = n,
                       !.start = <<[total |-> n, progress |-> Progress(0, n)]>>,
                       !.lastEvent = "savestart"] IN
       job' = [job EXCEPT ![j] = ProcessBatch(started, j, 0, tilesforSave')]
    /\ UNCHANGED <<store, tile, auxVars>>

\* the callback of openDB().then in _saveTiles, no confirm option set: the tile
\* list is computed and kept in this._tilesforSave; _saveTilesImpl then sets
\* saveToCache, fires savestart and runs the first batch.  openDB has set the
\* layer's cacheDB when it had none.
SaveTiles(j, n) ==
    /\ clicksLeft > 0
    /\ job[j].st = "none"
    /\ \A i \in Jobs : i < j => job[i].st # "none"
    /\ n \in lens
    /\ clicksLeft' = clicksLeft - 1
    /\ lens' = lens \ {n}
    /\ tilesforSave' = [job |-> j, len |-> n]
    /\ options' = [options EXCEPT !.cacheDB = TRUE, !.saveToCache = TRUE]
    /\ LET started == [NoJob EXCEPT !.st = "running", !.total = n,
                       !.start = <<[total |-> n, progress |-> Progress(0, n)]>>,
                       !.lastEvent = "savestart"] IN
       job' = [job EXCEPT ![j] = ProcessBatch(started, j, 0, tilesforSave')]
    /\ UNCHANGED <<store, tile, auxVars>>

\* openDB rejects (IndexedDB absent, or the open request fails): the .catch of
\* _saveTiles alerts and nothing is saved
SaveTilesOpenRejected ==
    /\ clicksLeft > 0
    /\ clicksLeft' = clicksLeft - 1
    /\ options' = [options EXCEPT !.cacheDB = TRUE]
    /\ UNCHANGED <<store, tile, job, tilesforSave, lens, auxVars>>

\* the setTimeout callback: processBatch(endIdx, batchSize)
BatchTimer(j) ==
    /\ job[j].timer
    /\ job' = [job EXCEPT ![j] = ProcessBatch(@, j, @.next, tilesforSave)]
    /\ UNCHANGED <<fetchVars, tilesforSave, clicksLeft, lens, auxVars>>

\* a failed tile counted by both the catch of the try and the .catch of the put
TileFailedCountedTwice(jr) ==
    [jr EXCEPT !.count = @ + 2]

\* a tile failed in img.onload's catch, in the put's .catch or in img.onerror
TileFailed(jr) ==
    [jr EXCEPT !.count = @ + 1]

\* a put's .then that fires savecomplete before the saveprogress of the last tile
TileStoredCompleteFirst(jr) ==
    LET count == jr.count + 1 IN
    [jr EXCEPT !.count = count,
               !.complete = IF count = jr.total
                            THEN Append(@, [total |-> jr.total]) ELSE @,
               !.nProgress = @ + 1,
               !.lastProgress = Progress(count, jr.total),
               !.lastEvent = "saveprogress"]

\* the put's .then: count++, saveprogress, and savecomplete when count === total
TileStored(jr) ==
    LET count == jr.count + 1 IN
    [jr EXCEPT !.count = count,
               !.nProgress = @ + 1,
               !.lastProgress = Progress(count, jr.total),
               !.complete = IF count = jr.total
                            THEN Append(@, [total |-> jr.total]) ELSE @,
               !.lastEvent = IF count = jr.total THEN "savecomplete"
                             ELSE "saveprogress"]

\* img.onload of a bulk tile: canvas and toDataURL, then cacheDB.put; a throwing
\* canvas call is caught and counted
ImgLoad(j) ==
    /\ job[j].loading > 0
    /\ \E canvasThrows \in BOOLEAN :
         job' = [job EXCEPT ![j] =
                    IF canvasThrows
                    THEN TileFailed([@ EXCEPT !.loading = @ - 1])
                    ELSE [@ EXCEPT !.loading = @ - 1, !.putting = @ + 1]]
    /\ UNCHANGED <<fetchVars, tilesforSave, clicksLeft, lens, auxVars>>

\* img.onerror of a bulk tile
ImgError(j) ==
    /\ job[j].loading > 0
    /\ job' = [job EXCEPT ![j] = TileFailed([@ EXCEPT !.loading = @ - 1])]
    /\ UNCHANGED <<fetchVars, tilesforSave, clicksLeft, lens, auxVars>>

\* the put of a bulk tile succeeds
PutResolve(j) ==
    /\ job[j].putting > 0
    /\ job' = [job EXCEPT ![j] = TileStored([@ EXCEPT !.putting = @ - 1])]
    /\ UNCHANGED <<fetchVars, tilesforSave, clicksLeft, lens, auxVars>>

\* the put of a bulk tile fails
PutReject(j) ==
    /\ job[j].putting > 0
    /\ job' = [job EXCEPT ![j] = TileFailed([@ EXCEPT !.putting = @ - 1])]
    /\ UNCHANGED <<fetchVars, tilesforSave, clicksLeft, lens, auxVars>>

\* -------------------------------------- L.Control.SaveTiles: tile enumeration

\* highest zoom level the enumeration is asked for; options.maxZoom is set to it
MaxZoom == 2
Zooms == 0..MaxZoom

Max(a, b) == IF a > b THEN a ELSE b

RECURSIVE Pow2(_)
Pow2(n) == IF n = 0 THEN 1 ELSE 2 * Pow2(n - 1)

\* Math.min(...s) and Math.max(...s) of a non-empty list of numbers
SeqMin(s) == CHOOSE m \in {s[i] : i \in DOMAIN s} : \A i \in DOMAIN s : m <= s[i]
SeqMax(s) == CHOOSE m \in {s[i] : i \in DOMAIN s} : \A i \in DOMAIN s : m >= s[i]

Num(v) == [k |-> "num", v |-> v]
Infinity == [k |-> "Infinity", v |-> 0]
NaN == [k |-> "NaN", v |-> 0]

\* The latitudes a bounds corner is given, south to north, each with the values
\* that _latLngToTile's expression
\*     (1 - Math.log(Math.tan(lat*PI/180) + 1/Math.cos(lat*PI/180)) / PI) / 2
\* can have in double arithmetic, in units of 1/1024 and rounded down, so that
\* Math.floor(value * 2^zoom) is ord \div 2^(10 - zoom) for every zoom up to 10.
\* At the two Mercator limits the exact value is 0 and 1, and the computed one
\* is a few units in the last place to either side, by the math library. At -90
\* tan + 1/cos is the sum of two numbers near -1.6e16 and +1.6e16 that are equal
\* or a few units in the last place apart: the logarithm is -Infinity (the
\* expression is Infinity), NaN, or that of a small positive number.
Latitudes ==
    << [deg |-> "-90",               ord |-> {Infinity, NaN, Num(399)}],
       [deg |-> "-85.1",             ord |-> {Num(1025)}],
       [deg |-> "-85.0511287798066", ord |-> {Num(1023), Num(1024)}],
       [deg |-> "-45",               ord |-> {Num(655)}],
       [deg |-> "0",                 ord |-> {Num(512)}],
       [deg |-> "45",                ord |-> {Num(368)}],
       [deg |-> "85.0511287798066",  ord |-> {Num(-1), Num(0)}],
       [deg |-> "85.1",              ord |-> {Num(-2)}],
       [deg |-> "90",                ord |-> {Num(-5686)}] >>
Lats == DOMAIN Latitudes
SouthLimit == 3
NorthLimit == 7
\* the longitudes a bounds corner is given, in degrees; for these (lng + 180) / 360
\* is exact in double arithmetic
Lngs == {-180, -90, 0, 90, 180}

\* _latLngToTile, the latitude entering by the value ord of its expression
LatLngToTile(ord, lng, zoom) ==
    [x |-> ((lng + 180) * Pow2(zoom)) \div 360,
     y |-> IF ord.k = "num" THEN Num(ord.v \div Pow2(10 - zoom)) ELSE ord]

\* the two loops of _calculateTilesForArea for one zoom level: x outside, y inside
TileRange(neTile, swTile, zoom) ==
    LET xMin == Min(neTile.x, swTile.x)
        xMax == Max(neTile.x, swTile.x)
        yMin == Min(neTile.y.v, swTile.y.v)
        yMax == Max(neTile.y.v, swTile.y.v)
        ny == yMax - yMin + 1
    IN  [i \in 1..((xMax - xMin + 1) * ny) |->
            [x |-> xMin + ((i - 1) \div ny), y |-> yMin + ((i - 1) % ny), z |-> zoom]]

\* _calculateTilesForArea from the i-th zoom level on. Math.min and Math.max of a
\* NaN are NaN, and no y satisfies y <= NaN: the level adds no tile. Otherwise
\* an Infinity makes yMax Infinity, and the inner loop pushes tiles without end.
RECURSIVE TilesFrom(_, _, _, _, _)
TilesFrom(zoomLevels, i, bounds, minZoom, maxZoom) ==
    IF i > Len(zoomLevels) THEN [st |-> "returned", tiles |-> << >>]
    ELSE
        LET zoom == zoomLevels[i]
            rest == TilesFrom(zoomLevels, i + 1, bounds, minZoom, maxZoom)
            neTile == LatLngToTile(bounds.ne.ord, bounds.ne.lng, zoom)
            swTile == LatLngToTile(bounds.sw.ord, bounds.sw.lng, zoom)
        IN  IF zoom < minZoom \/ zoom > maxZoom THEN rest
            ELSE IF "NaN" \in {neTile.y.k, swTile.y.k} THEN rest
            ELSE IF "Infinity" \in {neTile.y.k, swTile.y.k}
                 THEN [st |-> "diverges", tiles |-> << >>]
            ELSE IF rest.st = "diverges" THEN rest
            ELSE [st |-> "returned",
                  tiles |-> TileRange(neTile, swTile, zoom) \o rest.tiles]

\* _calculateTilesForArea; zoomlevels is options.zoomlevels, << >> standing for null
CalculateTilesForArea(bounds, minZoom, maxZoom, zoomlevels) ==
    LET zoomLevels == IF zoomlevels # << >> THEN zoomlevels ELSE <<minZoom, maxZoom>>
    IN  TilesFrom(zoomLevels, 1, bounds, minZoom, maxZoom)

\* no enumeration is asked for
NoEnum ==
    [st |-> "none", ne |-> [lat |-> 1, lng |-> 0], sw |-> [lat |-> 1, lng |-> 0],
     zoomlevels |-> << >>, mapZoom |-> 0, maxZoom |-> 0,
     res |-> [st |-> "none", tiles |-> << >>]]

\* the body of _saveTiles up to the tile list: bounds, minZoom and maxZoom from
\* the options and the map, then _calculateTilesForArea
CalculateTiles ==
    /\ enum.st = "input"
    /\ \E on \in Latitudes[enum.ne.lat].ord, os \in Latitudes[enum.sw.lat].ord :
          /\ enum.ne.lat = enum.sw.lat => on = os
          /\ LET bounds == [ne |-> [ord |-> on, lng |-> enum.ne.lng],
                            sw |-> [ord |-> os, lng |-> enum.sw.lng]]
                 given == enum.zoomlevels # << >>
                 minZoom == IF given THEN SeqMin(enum.zoomlevels) ELSE enum.mapZoom
                 maxZoom == IF given THEN SeqMax(enum.zoomlevels) ELSE enum.maxZoom
             IN  enum' = [enum EXCEPT
                             !.st = "done",
                             !.res = CalculateTilesForArea(bounds, minZoom, maxZoom,
                                                           enum.zoomlevels)]
    /\ UNCHANGED <<fetchVars, bulkVars, keyc, idb, dbm, rm, bt, dl>>

\* ------------------------------------------ L.TileLayer.Offline: the tile key

\* longest URL template, in tokens
MaxUrlLen == 2
\* a URL template is a list of tokens: a character or a coordinate placeholder
UrlTokens == {"a", "_", "1", "{x}"}
Urls == UNION {[1..n -> UrlTokens] : n \in 1..MaxUrlLen}
\* the coordinates a key is asked for
KeyCoords == {0, 1, 11}
KeyInputs == [url : Urls, z : KeyCoords, x : KeyCoords, y : KeyCoords]

\* url.replace(/\{[xyz]\}/g, ''): the template without its coordinate placeholders
Placeholder(t) == t \in {"{x}", "{y}", "{z}"}
NotPlaceholder(t) == ~Placeholder(t)
CacheKeyPrefix(url) == SelectSeq(url, NotPlaceholder)

\* the decimal digits of a natural number, as a template literal formats it
RECURSIVE Digits(_)
Digits(n) ==
    LET d == <<"0", "1", "2", "3", "4", "5", "6", "7", "8", "9">>[(n % 10) + 1]
    IN  IF n < 10 THEN <<d>> ELSE Digits(n \div 10) \o <<d>>

\* the four parts of the key put together without a separator
GetTileKeyUnseparated(prefix, coords) ==
    prefix \o Digits(coords.z) \o Digits(coords.x) \o Digits(coords.y)

\* _getTileKey: `${this._cacheKeyPrefix}_${coords.z}_${coords.x}_${coords.y}`
GetTileKey(prefix, coords) ==
    prefix \o <<"_">> \o Digits(coords.z) \o <<"_">> \o Digits(coords.x)
           \o <<"_">> \o Digits(coords.y)

\* no key is asked for
NoKey == [st |-> "none", in |-> [url |-> <<"a">>, z |-> 0, x |-> 0, y |-> 0],
          prefix |-> << >>, key |-> << >>, again |-> << >>]

\* the layer is constructed from the template, and _getTileKey is called twice
\* for the same coordinates
TileKey ==
    /\ keyc.st = "input"
    /\ LET prefix == CacheKeyPrefix(keyc.in.url)
       IN  keyc' = [keyc EXCEPT !.st = "done", !.prefix = prefix,
                                !.key = GetTileKey(prefix, keyc.in),
                                !.again = GetTileKey(prefix, keyc.in)]
    /\ UNCHANGED <<fetchVars, bulkVars, enum, idb, dbm, rm, bt, dl>>

\* ----------------------------------------------------- L.TileLayer.DBManager

\* number of open() calls made on one DBManager
MaxOpenCalls == 4
OpenCalls == 1..MaxOpenCalls

\* a DBManager just constructed: _db is null (0), no open() call made yet, no
\* indexedDB.open request issued
NoDB ==
    [db |-> 0, opens |-> 0,
     call |-> [c \in OpenCalls |-> [st |-> "new", handle |-> 0]]]

\* open(): with _db set the promise resolves to it; without window.indexedDB it
\* rejects; otherwise a new indexedDB.open request is issued, whose result is a
\* database connection of its own (named by the number of the request)
Open(c) ==
    /\ dbm.call[c].st = "new"
    /\ \A d \in OpenCalls : d < c => dbm.call[d].st # "new"
    /\ dbm' =
          IF dbm.db # 0
          THEN [dbm EXCEPT !.call[c] = [st |-> "resolved", handle |-> dbm.db]]
          ELSE IF idb = "absent"
          THEN [dbm EXCEPT !.call[c] = [st |-> "rejected", handle |-> 0]]
          ELSE [dbm EXCEPT !.opens = @ + 1,
                           !.call[c] = [st |-> "pending", handle |-> dbm.opens + 1]]
    /\ UNCHANGED <<fetchVars, bulkVars, enum, keyc, idb, rm, bt, dl>>

\* request.onsuccess: this._db = e.target.result; resolve(this._db)
OpenSuccess(c) ==
    /\ dbm.call[c].st = "pending"
    /\ dbm' = [dbm EXCEPT !.db = dbm.call[c].handle, !.call[c].st = "resolved"]
    /\ UNCHANGED <<fetchVars, bulkVars, enum, keyc, idb, rm, bt, dl>>

\* request.onerror: reject
OpenError(c) ==
    /\ dbm.call[c].st = "pending"
    /\ dbm' = [dbm EXCEPT !.call[c] = [st |-> "rejected", handle |-> 0]]
    /\ UNCHANGED <<fetchVars, bulkVars, enum, keyc, idb, rm, bt, dl>>

\* -------------------------------------------- L.Control.SaveTiles: removal

\* no removal asked for
NoRm == [st |-> "idle", stored |-> {}, ahead |-> {}, inflight |-> {},
         removecomplete |-> 0]

\* a click on the remove button, openDB resolving: _rmTilesImpl requests
\* cacheDB.clear. The keys stored at that moment are remembered, and so are the
\* write-backs whose put is already requested (IndexedDB runs the read-write
\* transactions of one store in the order they were created) and those still
\* downloading their image.
RmTiles ==
    /\ rm.st = "idle"
    /\ rm' = [rm EXCEPT !.st = "clearing",
                        !.stored = {k \in Keys : store[k] = "rec"},
                        !.ahead = {c \in Calls : tile[c].wb = "put"},
                        !.inflight = {c \in Calls : tile[c].wb = "img"}]
    /\ options' = [options EXCEPT !.cacheDB = TRUE]
    /\ UNCHANGED <<store, tile, bulkVars, enum, keyc, idb, dbm, bt, dl>>

\* openDB rejects: the .catch of _rmTiles alerts and nothing is removed
RmTilesOpenRejected ==
    /\ rm.st = "idle"
    /\ rm' = [rm EXCEPT !.st = "failed"]
    /\ options' = [options EXCEPT !.cacheDB = TRUE]
    /\ UNCHANGED <<store, tile, bulkVars, enum, keyc, idb, dbm, bt, dl>>

\* the clear request succeeds, after the puts requested before it have ended:
\* the store is empty and removecomplete is fired
ClearResolve ==
    /\ rm.st = "clearing"
    /\ \A c \in rm.ahead : tile[c].wb # "put"
    /\ store' = [k \in Keys |-> "absent"]
    /\ rm' = [rm EXCEPT !.st = "done", !.removecomplete = @ + 1]
    /\ UNCHANGED <<options, tile, bulkVars, enum, keyc, idb, dbm, bt, dl>>

\* the clear request fails: the .catch of _rmTilesImpl logs
ClearReject ==
    /\ rm.st = "clearing"
    /\ \A c \in rm.ahead : tile[c].wb # "put"
    /\ rm' = [rm EXCEPT !.st = "failed"]
    /\ UNCHANGED <<options, store, tile, bulkVars, enum, keyc, idb, dbm, bt, dl>>

\* ------------------------- the key of a tile: bulk save against createTile

\* the bulk key with the x and y fields exchanged
SaveTilesKeySwapped(prefix, t) ==
    prefix \o <<"_">> \o Digits(t.z) \o <<"_">> \o Digits(t.y)
           \o <<"_">> \o Digits(t.x)

\* the key of processBatch:
\* `${this._baseLayer._cacheKeyPrefix}_${tile.z}_${tile.x}_${tile.y}`
SaveTilesKey(prefix, t) ==
    prefix \o <<"_">> \o Digits(t.z) \o <<"_">> \o Digits(t.x)
           \o <<"_">> \o Digits(t.y)

\* no tile is saved or asked for
NoBt ==
    [st |-> "none", url |-> <<"a">>, tile |-> [z |-> 0, x |-> 0, y |-> 0],
     coords |-> [z |-> 0, x |-> 0, y |-> 0], stored |-> {}, key |-> << >>,
     hit |-> FALSE]

\* img.onload of the bulk tile and its put succeeding: the record {key, url:
\* dataUrl, ...} is in the store cacheStoreName of the base layer's cacheDB
BulkPut ==
    /\ bt.st = "input"
    /\ bt' = [bt EXCEPT !.st = "stored",
                        !.stored = {SaveTilesKey(CacheKeyPrefix(bt.url), bt.tile)}]
    /\ UNCHANGED <<fetchVars, bulkVars, enum, keyc, idb, dbm, rm, dl>>

\* a later createTile on the same layer: _getTileKey(coords), and
\* _getTileFromCache reading that key in the same store of the same cacheDB
CreateTileRead ==
    /\ bt.st = "stored"
    /\ LET key == GetTileKey(CacheKeyPrefix(bt.url), bt.coords)
       IN  bt' = [bt EXCEPT !.st = "read", !.key = key, !.hit = (key \in bt.stored)]
    /\ UNCHANGED <<fetchVars, bulkVars, enum, keyc, idb, dbm, rm, dl>>

\* ------------------------------ map_layer_toggle.js: downloadCurrentMapArea

\* highest zoom of the map when the download button is clicked
MaxMapZoom == 1
MapZooms == 0..MaxMapZoom
\* map.getBounds() gives latitudes strictly between -90 and 90
MapLats == {l \in Lats : Latitudes[l].deg \notin {"-90", "90"}}

\* latLngToTile of map_layer_toggle.js, the latitude entering by the value ord
\* of its expression (the one of _latLngToTile)
latLngToTile(ord, lng, zoom) ==
    [x |-> ((lng + 180) * Pow2(zoom)) \div 360,
     y |-> ord.v \div Pow2(10 - zoom)]

\* the tile range of one zoom level, as both loops over z compute it
ZoomRange(b, z) ==
    LET nwTile == latLngToTile(b.ne.ord, b.sw.lng, z)
        seTile == latLngToTile(b.sw.ord, b.ne.lng, z)
    IN  [xMin |-> Min(nwTile.x, seTile.x), xMax |-> Max(nwTile.x, seTile.x),
         yMin |-> Min(nwTile.y, seTile.y), yMax |-> Max(nwTile.y, seTile.y)]

\* the loop that computes tilesCount, from zoom z on
RECURSIVE TilesCount(_, _, _)
TilesCount(b, z, maxZoom) ==
    IF z > maxZoom THEN 0
    ELSE LET r == ZoomRange(b, z)
         IN  (r.xMax - r.xMin + 1) * (r.yMax - r.yMin + 1)
                 + TilesCount(b, z + 1, maxZoom)

\* downloadLayerTiles with loops that stop one short of xMax
LayerTimersExclusive(b, minZoom, maxZoom) ==
    Cardinality(UNION {
        LET r == ZoomRange(b, z)
        IN  {<<z, x, y>> : x \in r.xMin..(r.xMax - 1), y \in r.yMin..r.yMax} :
        z \in minZoom..maxZoom})

\* downloadLayerTiles: the number of setTimeout callbacks its three loops set,
\* one for each z, x, y
LayerTimers(b, minZoom, maxZoom) ==
    Cardinality(UNION {
        LET r == ZoomRange(b, z)
        IN  {<<z, x, y>> : x \in r.xMin..r.xMax, y \in r.yMin..r.yMax} :
        z \in minZoom..maxZoom})

\* the satellite callback starting the street layer at the first tile
SatelliteDoneAtFirst(downloadedTiles, tilesCount) == downloadedTiles >= 1

\* if (downloadedTiles >= tilesCount) of the satellite layer's callback
SatelliteDone(downloadedTiles, tilesCount) == downloadedTiles >= tilesCount

\* if (downloadedTiles >= tilesCount * 2) of the street layer's callback
AllDone(downloadedTiles, tilesCount) == downloadedTiles >= tilesCount * 2

\* the download button has not been clicked
NoDl ==
    [st |-> "none", ne |-> [lat |-> 5, lng |-> 0], sw |-> [lat |-> 5, lng |-> 0],
     zoom |-> 0, b |-> [ne |-> [ord |-> Num(0), lng |-> 0],
                        sw |-> [ord |-> Num(0), lng |-> 0]],
     minZoom |-> 0, maxZoom |-> 0, tilesCount |-> 0, downloadedTiles |-> 0,
     set |-> [satellite |-> 0, street |-> 0],
     pending |-> [satellite |-> 0, street |-> 0],
     streetStarts |-> 0, notices |-> 0, noticePending |-> FALSE, alerts |-> 0,
     shown |-> FALSE, progress |-> 0]

\* downloadCurrentMapArea up to the first downloadLayerTiles call: zoom range,
\* progress shown, tilesCount, and the satellite layer's timers set
DownloadCurrentMapArea ==
    /\ dl.st = "input"
    /\ \E on \in Latitudes[dl.ne.lat].ord, os \in Latitudes[dl.sw.lat].ord :
          /\ dl.ne.lat = dl.sw.lat => on = os
          /\ LET b == [ne |-> [ord |-> on, lng |-> dl.ne.lng],
                       sw |-> [ord |-> os, lng |-> dl.sw.lng]]
                 minZoom == Max(dl.zoom - 2, 0)
                 maxZoom == Min(dl.zoom + 2, 19)
                 timers == LayerTimers(b, minZoom, maxZoom)
             IN  dl' = [dl EXCEPT !.st = "running", !.b = b, !.shown = TRUE,
                                  !.minZoom = minZoom, !.maxZoom = maxZoom,
                                  !.tilesCount = TilesCount(b, minZoom, maxZoom),
                                  !.set.satellite = timers,
                                  !.pending.satellite = timers]
    /\ UNCHANGED <<fetchVars, bulkVars, enum, keyc, idb, dbm, rm, bt>>

\* a timer of the satellite layer fires: progressCallback(1) of the outer
\* callback, which starts the street layer's download when its condition holds
SatelliteTimer ==
    /\ dl.pending.satellite > 0
    /\ LET d == dl.downloadedTiles + 1
           after == [dl EXCEPT !.pending.satellite = @ - 1, !.downloadedTiles = d,
                               !.progress = Progress(d, dl.tilesCount * 2)]
           timers == LayerTimers(dl.b, dl.minZoom, dl.maxZoom)
       IN  dl' = IF SatelliteDone(d, dl.tilesCount)
                 THEN [after EXCEPT !.streetStarts = @ + 1,
                                    !.set.street = @ + timers,
                                    !.pending.street = @ + timers]
                 ELSE after
    /\ UNCHANGED <<fetchVars, bulkVars, enum, keyc, idb, dbm, rm, bt>>

\* a timer of the street layer fires: progressCallback(1) of the inner callback,
\* which sets the 500 ms timer of the completion notice when all is done
StreetTimer ==
    /\ dl.pending.street > 0
    /\ LET d == dl.downloadedTiles + 1
           after == [dl EXCEPT !.pending.street = @ - 1, !.downloadedTiles = d,
                               !.progress = Progress(d, dl.tilesCount * 2)]
       IN  dl' = IF AllDone(d, dl.tilesCount)
                 THEN [after EXCEPT !.notices = @ + 1, !.noticePending = TRUE]
                 ELSE after
    /\ UNCHANGED <<fetchVars, bulkVars, enum, keyc, idb, dbm, rm, bt>>

\* the 500 ms timer: the progress container is hidden and the alert is shown
NoticeTimer ==
    /\ dl.noticePending
    /\ dl' = [dl EXCEPT !.noticePending = FALSE, !.shown = FALSE, !.alerts = @ + 1]
    /\ UNCHANGED <<fetchVars, bulkVars, enum, keyc, idb, dbm, rm, bt>>

\* the interactive path: any options, any store content, IndexedDB there or not,
\* no createTile call made yet, and no bulk job is ever started
InitFetch ==
    /\ options \in [useCache : BOOLEAN, saveToCache : BOOLEAN, cacheDB : BOOLEAN]
    /\ store \in [Keys -> {"absent", "empty", "rec"}]
    /\ tile = [c \in Calls |-> NoTile]
    /\ job = [j \in Jobs |-> NoJob]
    /\ tilesforSave = [job |-> 0, len |-> 0]
    /\ clicksLeft = 0
    /\ lens = {}
    /\ enum = NoEnum
    /\ keyc = NoKey
    /\ idb \in {"ok", "absent"}
    /\ dbm = NoDB
    /\ rm = NoRm
    /\ bt = NoBt
    /\ dl = NoDl

NextFetch ==
    \/ \E c \in Calls, k \in Keys : CreateTile(c, k)
    \/ \E c \in Calls : CacheReadResolve(c)
    \/ \E c \in Calls : TileLoad(c)
    \/ \E c \in Calls : TileError(c)
    \/ \E c \in Calls : FallbackReadResolve(c)
    \/ \E c \in Calls : WbImgLoad(c)
    \/ \E c \in Calls : WbImgError(c)
    \/ \E c \in Calls : WbPutResolve(c)
    \/ \E c \in Calls : WbPutReject(c)

NextBulk ==
    \/ \E j \in Jobs, n \in 0..MaxTiles : SaveTiles(j, n)
    \/ SaveTilesOpenRejected
    \/ \E j \in Jobs : BatchTimer(j)
    \/ \E j \in Jobs : ImgLoad(j)
    \/ \E j \in Jobs : ImgError(j)
    \/ \E j \in Jobs : PutResolve(j)
    \/ \E j \in Jobs : PutReject(j)

\* the interactive path: createTile calls on one layer
SpecFetch == InitFetch /\ [][NextFetch]_vars

\* one click on the save button: a single bulk job
InitBulk ==
    /\ options \in [useCache : BOOLEAN, saveToCache : BOOLEAN, cacheDB : BOOLEAN]
    /\ store = [k \in Keys |-> "absent"]
    /\ tile = [c \in Calls |-> NoTile]
    /\ job = [j \in Jobs |-> NoJob]
    /\ tilesforSave = [job |-> 0, len |-> 0]
    /\ clicksLeft = 1
    /\ lens = 0..MaxTiles
    /\ enum = NoEnum
    /\ keyc = NoKey
    /\ idb = "ok"
    /\ dbm = NoDB
    /\ rm = NoRm
    /\ bt = NoBt
    /\ dl = NoDl

SpecBulk == InitBulk /\ [][NextBulk]_vars

\* the bulk job under the scheduling the browser guarantees: every pending timer
\* fires, every image load and every store request ends
FairBulk ==
    \A j \in Jobs :
        /\ WF_vars(BatchTimer(j))
        /\ WF_vars(ImgLoad(j) \/ ImgError(j))
        /\ WF_vars(PutResolve(j) \/ PutReject(j))

SpecBulkFair == SpecBulk /\ FairBulk

\* several clicks on the save button: jobs that overlap, each of a short tile
\* list or of one that needs a second batch
InitJobs ==
    /\ options \in [useCache : BOOLEAN, saveToCache : BOOLEAN, cacheDB : BOOLEAN]
    /\ store = [k \in Keys |-> "absent"]
    /\ tile = [c \in Calls |-> NoTile]
    /\ job = [j \in Jobs |-> NoJob]
    /\ tilesforSave = [job |-> 0, len |-> 0]
    /\ clicksLeft = MaxJobs
    /\ lens = (0..MaxJobTiles) \cup {BatchSize + 1}
    /\ enum = NoEnum
    /\ keyc = NoKey
    /\ idb = "ok"
    /\ dbm = NoDB
    /\ rm = NoRm
    /\ bt = NoBt
    /\ dl = NoDl

SpecJobs == InitJobs /\ [][NextBulk]_vars

\* one enumeration: any two corners with the south-west one not north or east of
\* the north-east one, options.zoomlevels null (with any map zoom up to
\* options.maxZoom) or a list of one or two zoom levels
InitEnum ==
    /\ options = [useCache |-> TRUE, saveToCache |-> TRUE, cacheDB |-> TRUE]
    /\ store = [k \in Keys |-> "absent"]
    /\ tile = [c \in Calls |-> NoTile]
    /\ job = [j \in Jobs |-> NoJob]
    /\ tilesforSave = [job |-> 0, len |-> 0]
    /\ clicksLeft = 0
    /\ lens = {}
    /\ enum \in
          {[st |-> "input", ne |-> [lat |-> nlat, lng |-> nlng],
            sw |-> [lat |-> slat, lng |-> slng], zoomlevels |-> zl,
            mapZoom |-> mz, maxZoom |-> MaxZoom,
            res |-> [st |-> "none", tiles |-> << >>]] :
              nlat \in Lats, slat \in Lats, nlng \in Lngs, slng \in Lngs,
              zl \in {<< >>} \cup [1..1 -> Zooms] \cup [1..2 -> Zooms], mz \in Zooms}
    /\ enum.sw.lat <= enum.ne.lat
    /\ enum.sw.lng <= enum.ne.lng
    /\ enum.zoomlevels # << >> => enum.mapZoom = 0
    /\ keyc = NoKey
    /\ idb = "ok"
    /\ dbm = NoDB
    /\ rm = NoRm
    /\ bt = NoBt
    /\ dl = NoDl

NextEnum ==
    \/ CalculateTiles

SpecEnum == InitEnum /\ [][NextEnum]_vars

\* one key derivation: any URL template and any coordinates
InitKey ==
    /\ options = [useCache |-> TRUE, saveToCache |-> TRUE, cacheDB |-> TRUE]
    /\ store = [k \in Keys |-> "absent"]
    /\ tile = [c \in Calls |-> NoTile]
    /\ job = [j \in Jobs |-> NoJob]
    /\ tilesforSave = [job |-> 0, len |-> 0]
    /\ clicksLeft = 0
    /\ lens = {}
    /\ enum = NoEnum
    /\ keyc \in {[st |-> "input", in |-> i, prefix |-> << >>, key |-> << >>,
                  again |-> << >>] : i \in KeyInputs}
    /\ idb = "ok"
    /\ dbm = NoDB
    /\ rm = NoRm
    /\ bt = NoBt
    /\ dl = NoDl

NextKey ==
    \/ TileKey

SpecKey == InitKey /\ [][NextKey]_vars

\* open() calls on one DBManager, IndexedDB there or not
InitDB ==
    /\ options = [useCache |-> TRUE, saveToCache |-> TRUE, cacheDB |-> TRUE]
    /\ store = [k \in Keys |-> "absent"]
    /\ tile = [c \in Calls |-> NoTile]
    /\ job = [j \in Jobs |-> NoJob]
    /\ tilesforSave = [job |-> 0, len |-> 0]
    /\ clicksLeft = 0
    /\ lens = {}
    /\ enum = NoEnum
    /\ keyc = NoKey
    /\ idb \in {"ok", "absent"}
    /\ dbm = NoDB
    /\ rm = NoRm
    /\ bt = NoBt
    /\ dl = NoDl

NextDB ==
    \/ \E c \in OpenCalls : Open(c)
    \/ \E c \in OpenCalls : OpenSuccess(c)
    \/ \E c \in OpenCalls : OpenError(c)

SpecDB == InitDB /\ [][NextDB]_vars

\* the interactive path with one click on the remove button
InitRemove ==
    /\ options \in [useCache : BOOLEAN, saveToCache : BOOLEAN, cacheDB : BOOLEAN]
    /\ store \in [Keys -> {"absent", "empty", "rec"}]
    /\ tile = [c \in Calls |-> NoTile]
    /\ job = [j \in Jobs |-> NoJob]
    /\ tilesforSave = [job |-> 0, len |-> 0]
    /\ clicksLeft = 0
    /\ lens = {}
    /\ enum = NoEnum
    /\ keyc = NoKey
    /\ idb = "ok"
    /\ dbm = NoDB
    /\ rm = NoRm
    /\ bt = NoBt
    /\ dl = NoDl

NextRemove ==
    \/ NextFetch
    \/ RmTiles
    \/ RmTilesOpenRejected
    \/ ClearResolve
    \/ ClearReject

SpecRemove == InitRemove /\ [][NextRemove]_vars

\* one layer of any URL template: a bulk save stores one tile, then createTile
\* is called for any coordinates
InitAgree ==
    /\ options = [useCache |-> TRUE, saveToCache |-> TRUE, cacheDB |-> TRUE]
    /\ store = [k \in Keys |-> "absent"]
    /\ tile = [c \in Calls |-> NoTile]
    /\ job = [j \in Jobs |-> NoJob]
    /\ tilesforSave = [job |-> 0, len |-> 0]
    /\ clicksLeft = 0
    /\ lens = {}
    /\ enum = NoEnum
    /\ keyc = NoKey
    /\ idb = "ok"
    /\ dbm = NoDB
    /\ rm = NoRm
    /\ bt \in {[st |-> "input", url |-> i.url, tile |-> [z |-> i.z, x |-> i.x, y |-> i.y],
                coords |-> [z |-> z, x |-> x, y |-> y], stored |-> {}, key |-> << >>,
                hit |-> FALSE] :
                  i \in KeyInputs, z \in KeyCoords, x \in KeyCoords, y \in KeyCoords}
    /\ dl = NoDl

NextAgree ==
    \/ BulkPut
    \/ CreateTileRead

SpecAgree == InitAgree /\ [][NextAgree]_vars

\* one click on the download button: any map bounds with the south-west corner
\* not north or east of the north-east one, any map zoom
InitDownload ==
    /\ options = [useCache |-> TRUE, saveToCache |-> TRUE, cacheDB |-> TRUE]
    /\ store = [k \in Keys |-> "absent"]
    /\ tile = [c \in Calls |-> NoTile]
    /\ job = [j \in Jobs |-> NoJob]
    /\ tilesforSave = [job |-> 0, len |-> 0]
    /\ clicksLeft = 0
    /\ lens = {}
    /\ enum = NoEnum
    /\ keyc = NoKey
    /\ idb = "ok"
    /\ dbm = NoDB
    /\ rm = NoRm
    /\ bt = NoBt
    /\ dl \in {[NoDl EXCEPT !.st = "input", !.ne = [lat |-> nlat, lng |-> nlng],
                            !.sw = [lat |-> slat, lng |-> slng], !.zoom = z] :
                  nlat \in MapLats, slat \in MapLats, nlng \in Lngs, slng \in Lngs,
                  z \in MapZooms}
    /\ dl.sw.lat <= dl.ne.lat
    /\ dl.sw.lng <= dl.ne.lng

NextDownload ==
    \/ DownloadCurrentMapArea
    \/ SatelliteTimer
    \/ StreetTimer
    \/ NoticeTimer

SpecDownload == InitDownload /\ [][NextDownload]_vars

\* one layer with any options and an empty store, shown on a map that also has
\* the save control: one click on the save button, for an empty or a one-tile
\* list, and createTile calls while the job runs or after it
InitMix ==
    /\ options \in [useCache : BOOLEAN, saveToCache : BOOLEAN, cacheDB : BOOLEAN]
    /\ store = [k \in Keys |-> "absent"]
    /\ tile = [c \in Calls |-> NoTile]
    /\ job = [j \in Jobs |-> NoJob]
    /\ tilesforSave = [job |-> 0, len |-> 0]
    /\ clicksLeft = 1
    /\ lens = {0, 1}
    /\ enum = NoEnum
    /\ keyc = NoKey
    /\ idb = "ok"
    /\ dbm = NoDB
    /\ rm = NoRm
    /\ bt = NoBt
    /\ dl = NoDl

\* a createTile call made after the click on the save button, whether its
\* openDB resolved or rejected
CreateTileAfterClick(c, k) ==
    /\ clicksLeft = 0
    /\ CreateTile(c, k)

\* the layer's steps and the bulk job's; a list of at most one tile is done in
\* the first batch, so no batch timer is ever set
NextMix ==
    \/ \E c \in Calls, k \in Keys : CreateTileAfterClick(c, k)
    \/ \E c \in Calls : CacheReadResolve(c)
    \/ \E c \in Calls : TileLoad(c)
    \/ \E c \in Calls : TileError(c)
    \/ \E c \in Calls : FallbackReadResolve(c)
    \/ \E c \in Calls : WbImgLoad(c)
    \/ \E c \in Calls : WbImgError(c)
    \/ \E c \in Calls : WbPutResolve(c)
    \/ \E c \in Calls : WbPutReject(c)
    \/ \E j \in Jobs, n \in 0..1 : SaveTiles(j, n)
    \/ SaveTilesOpenRejected
    \/ \E j \in Jobs : ImgLoad(j)
    \/ \E j \in Jobs : ImgError(j)
    \/ \E j \in Jobs : PutResolve(j)
    \/ \E j \in Jobs : PutReject(j)

SpecMix == InitMix /\ [][NextMix]_vars

\* ------------------------------------------------------------------ claims

\* C1: a createTile call whose first cache read found a non-empty record has
\* issued no network request for the tile, from any place in the code.
C1_CacheHitNoNetworkFetch ==
    \A c \in Calls : tile[c].hit => tile[c].fetched = {}

\* C2: after a createTile call for a key absent from the store, whose network
\* load succeeded and whose write-back (if any) has ended, the call has made
\* exactly one store put with saveToCache enabled and none with it disabled.
C2_OneWritePerColdResolve ==
    \A c \in Calls :
        (/\ tile[c].coldMiss
         /\ tile[c].src = "net"
         /\ tile[c].load = "loaded"
         /\ tile[c].wb \notin {"img", "put"})
        => tile[c].puts = (IF options.saveToCache THEN 1 ELSE 0)

\* C3: a tile served from a stored record, by the first cache read or by the
\* fallback read after a network error, makes no store put; a call puts at most
\* once, and only after a network load of its own.
C3_NoWriteWhenServedFromStore ==
    \A c \in Calls :
        /\ (tile[c].hit \/ tile[c].fallbackHit) => tile[c].puts = 0
        /\ tile[c].puts <= 1
        /\ tile[c].puts = 1 => "wb" \in tile[c].fetched

\* C4: with useCache and a store, whatever saveToCache is, a network load that
\* fails after a cache miss is followed by exactly one further store read; when
\* that read finds a record the caller gets no error, and when it misses the
\* caller gets the error.
C4_FallbackReadOnNetworkFailure ==
    \A c \in Calls :
        (options.useCache /\ options.cacheDB /\ tile[c].netFailed) =>
            /\ tile[c].fallbackReads = 1
            /\ tile[c].read = "none" =>
                  IF tile[c].fallbackHit THEN tile[c].doneErr = 0
                  ELSE tile[c].doneErr >= 1

\* C5: once a write-back has been started, done(null, tile) has already been
\* called, and no step taken while or after the write-back runs, whatever its
\* outcome, gives the caller an error for that tile.
C5_WriteBackNeverFailsResolution ==
    /\ [](\A c \in Calls : tile[c].wb # "none" => tile[c].doneOk >= 1)
    /\ [][\A c \in Calls :
            tile[c].wb # "none" => tile'[c].doneErr = tile[c].doneErr]_vars

\* C5 witness: a write-back that failed at the put, after the caller got its tile
C5_Witness ==
    \E c \in Calls :
        /\ tile[c].wb = "failed"
        /\ tile[c].puts = 1
        /\ tile[c].doneOk >= 1
        /\ tile[c].doneErr = 0

\* C6: the tiles of a bulk job that are dispatched and not finished are never
\* more than the batch size.
C6_BoundedInFlight ==
    \A j \in Jobs : job[j].loading + job[j].putting <= BatchSize

\* C7: a bulk job of at least one tile whose completed count has reached total
\* has emitted its savecomplete event.
C7_CompletionEventEmitted ==
    \A j \in Jobs :
        (job[j].st # "none" /\ job[j].total > 0 /\ job[j].count = job[j].total)
        => Len(job[j].complete) = 1

\* C8: every finished tile of a bulk job, stored or failed, has been reported by
\* one saveprogress event, whose value is round(completed / total * 100).
C8_EveryFinishedTileReported ==
    \A j \in Jobs :
        /\ job[j].nProgress = job[j].count
        /\ job[j].count > 0 =>
              job[j].lastProgress = Progress(job[j].count, job[j].total)

\* C9: the terminal report of a bulk job carries succeeded and failed counts
\* that sum to total.
C9_TerminalReportCountsFailures ==
    \A j \in Jobs :
        \A i \in 1..Len(job[j].complete) :
            LET report == job[j].complete[i] IN
            /\ {"succeeded", "failed"} \subseteq DOMAIN report
            /\ report.succeeded + report.failed = report.total

\* a job with tiles still to dispatch or in flight
ActiveJob(j) ==
    /\ job[j].st # "none"
    /\ job[j].timer \/ job[j].loading > 0 \/ job[j].putting > 0

\* C10: at most one bulk job is active at a time, and no job reads a tile list
\* that another job computed.
C10_OneActiveJobPerLayer ==
    /\ Cardinality({j \in Jobs : ActiveJob(j)}) <= 1
    /\ \A j \in Jobs : ~job[j].readForeign

\* C11: a started job has fired savestart once, carrying its total, before any
\* saveprogress; once savecomplete is fired it stays the job's last event, and no
\* saveprogress follows it.
C11_EventOrder ==
    /\ [](\A j \in Jobs :
            /\ Len(job[j].start) <= 1
            /\ job[j].st = "none" => job[j].lastEvent = "none"
            /\ job[j].st # "none" =>
                  /\ Len(job[j].start) = 1
                  /\ job[j].start[1].total = job[j].total
                  /\ job[j].lastEvent # "none"
            /\ Len(job[j].complete) >= 1 => job[j].lastEvent = "savecomplete")
    /\ [][\A j \in Jobs :
            /\ job'[j].nProgress > job[j].nProgress => Len(job[j].start) = 1
            /\ Len(job[j].complete) >= 1 =>
                  /\ job'[j].nProgress = job[j].nProgress
                  /\ job'[j].start = job[j].start]_vars

\* C11 witness: a job of several tiles, one of them failed, that has fired
\* savecomplete after its saveprogress events
C11_Witness ==
    \E j \in Jobs :
        /\ Len(job[j].complete) = 1
        /\ job[j].nProgress >= 2
        /\ job[j].nProgress < job[j].count
        /\ job[j].lastEvent = "savecomplete"

\* C12: the progress value of each saveprogress event of a job is at least the
\* value of the one before it.
C12_MonotoneProgress ==
    [][\A j \in Jobs :
          (job[j].nProgress >= 1 /\ job'[j].nProgress > job[j].nProgress)
          => job'[j].lastProgress >= job[j].lastProgress]_vars

\* C12 witness: a second-batch tile reported after a failure among earlier ones
C12_Witness ==
    \E j \in Jobs :
        /\ job[j].total > BatchSize
        /\ job[j].nProgress >= 2
        /\ job[j].nProgress < job[j].count
        /\ job[j].lastProgress = 100

\* the tile list the enumeration returned
EnumTiles == {enum.res.tiles[i] : i \in DOMAIN enum.res.tiles}

\* C13: the tile list that _calculateTilesForArea returns holds each (z, x, y)
\* triple at most once, for every bounds and every zoom configuration.
C13_NoDuplicateTiles ==
    enum.st = "done" =>
        \A i, j \in DOMAIN enum.res.tiles :
            i # j => enum.res.tiles[i] # enum.res.tiles[j]

\* the bounds cover the whole world: longitude -180..180, latitude at the limits
WholeWorld ==
    /\ enum.sw = [lat |-> SouthLimit, lng |-> -180]
    /\ enum.ne = [lat |-> NorthLimit, lng |-> 180]

\* the zoom levels the enumeration is asked for
EnumZooms ==
    IF enum.zoomlevels # << >>
    THEN {enum.zoomlevels[i] : i \in DOMAIN enum.zoomlevels}
    ELSE {enum.mapZoom, enum.maxZoom}

\* C14: for bounds covering the whole world the enumeration returns exactly 4^z
\* tiles of every zoom z it is asked for; at zoom 0 exactly the tile (0,0,0).
C14_WholeWorldCount ==
    (enum.st = "done" /\ WholeWorld) =>
        /\ enum.res.st = "returned"
        /\ \A z \in EnumZooms :
              Cardinality({t \in EnumTiles : t.z = z}) = Pow2(2 * z)
        /\ 0 \in EnumZooms =>
              {t \in EnumTiles : t.z = 0} = {[x |-> 0, y |-> 0, z |-> 0]}

\* C15: every tile coordinate the enumeration produces lies in the grid of its
\* zoom: 0 <= x < 2^z and 0 <= y < 2^z.
C15_CoordinatesInGrid ==
    enum.st = "done" =>
        \A t \in EnumTiles :
            /\ 0 <= t.x /\ t.x < Pow2(t.z)
            /\ 0 <= t.y /\ t.y < Pow2(t.z)

\* a latitude outside the valid Mercator range
InvalidLatitude(lat) == lat < SouthLimit \/ lat > NorthLimit

\* C16: an enumeration over bounds with a latitude outside the valid Mercator
\* range fails with InvalidRegion and yields no tile.
C16_InvalidLatitudeRejected ==
    (enum.st = "done" /\ (InvalidLatitude(enum.ne.lat) \/ InvalidLatitude(enum.sw.lat))) =>
        /\ enum.res.st = "InvalidRegion"
        /\ enum.res.tiles = << >>

\* C17: the key of a template and coordinates is the same each time it is
\* computed, and any other template and coordinates that differ in the layer
\* identifier (the template without its placeholders) or in z, x or y have a
\* different key.
C17_KeyInjective ==
    keyc.st = "done" =>
        /\ keyc.again = keyc.key
        /\ \A o \in KeyInputs :
              (\/ CacheKeyPrefix(o.url) # keyc.prefix
               \/ o.z # keyc.in.z \/ o.x # keyc.in.x \/ o.y # keyc.in.y)
              => GetTileKey(CacheKeyPrefix(o.url), o) # keyc.key

\* the key of (z 1, x 11, y 1) on a layer whose identifier ends in "_1"
C17_Witness ==
    /\ keyc.st = "done"
    /\ keyc.in = [url |-> <<"_", "1">>, z |-> 1, x |-> 11, y |-> 1]
    /\ keyc.key = <<"_", "1", "_", "1", "_", "1", "1", "_", "1">>

\* the store cannot be used: the layer has no cacheDB, or IndexedDB is absent
StoreUnavailable == ~options.cacheDB \/ idb = "absent"

\* C18 as stated: once the store is unavailable or the cache read of a createTile
\* call has been rejected, the call loads its tile from the network and no store
\* write is requested for it.
C18_NoWriteAfterFailedRead ==
    \A c \in Calls :
        (tile[c].st = "created" /\ options.useCache /\ tile[c].read # "first"
         /\ (StoreUnavailable \/ tile[c].readRejected))
        => /\ "load" \in tile[c].fetched
           /\ tile[c].requests = 0

\* C18: while the store is unavailable every resolved cache read of a createTile
\* call has led to a network load of the tile, no call is served from the store,
\* no write request reaches the store and the store holds what it held; and,
\* available or not, a rejected cache read leads to a network load and a caller
\* is told of an error only by the tile's network error event or by the fallback
\* read that follows it.
C18_StoreUnavailableNeverFatal ==
    /\ [](\A c \in Calls :
            /\ (StoreUnavailable /\ tile[c].st = "created") =>
                  /\ ~tile[c].hit /\ ~tile[c].fallbackHit
                  /\ tile[c].requests = 0
                  /\ tile[c].wb \notin {"put", "saved"}
                  /\ (options.useCache /\ tile[c].read # "first")
                        => "load" \in tile[c].fetched
            /\ (tile[c].st = "created" /\ options.useCache /\ tile[c].read # "first"
                 /\ ~tile[c].hit) => "load" \in tile[c].fetched)
    /\ [][/\ StoreUnavailable => store' = store
          /\ \A c \in Calls :
                tile'[c].doneErr > tile[c].doneErr =>
                    \/ tile[c].load = "pending" /\ tile[c].src = "net"
                       /\ tile'[c].load = "failed"
                    \/ tile[c].read = "fallback" /\ tile[c].load = "failed"]_vars

\* IndexedDB is absent and the layer has a cacheDB and saveToCache: the read was
\* rejected, the tile came from the network, and the put was called and rejected
C18_Witness ==
    \E c \in Calls :
        /\ idb = "absent" /\ options.cacheDB /\ options.useCache
        /\ "load" \in tile[c].fetched
        /\ tile[c].doneOk >= 1
        /\ tile[c].puts = 1
        /\ tile[c].wb = "failed"

\* C19: whatever the order of the open() calls and of the completions of their
\* requests, at most one indexedDB.open request is issued and all the calls that
\* resolve, resolve to the same database handle.
C19_OpenIdempotent ==
    /\ dbm.opens <= 1
    /\ \A c, d \in OpenCalls :
          (dbm.call[c].st = "resolved" /\ dbm.call[d].st = "resolved")
          => dbm.call[c].handle = dbm.call[d].handle

\* C20: once the removal has completed and removecomplete has been fired, a
\* cache read of a key that was stored when the removal was asked for finds
\* nothing, also when a write-back of that key was in flight at that moment.
C20_RemovalEmptiesCache ==
    rm.removecomplete >= 1 =>
        \A k \in rm.stored :
            \/ GetTileFromCache(k, FALSE) = "null"
            \/ \A c \in rm.inflight : ~(tile[c].key = k /\ tile[c].wb = "saved")

\* C21: the tile list _calculateTilesForArea returns is in ascending zoom order,
\* whatever the order in which options.zoomlevels names the levels.
C21_AscendingZoomOrder ==
    enum.st = "done" =>
        \A i, j \in DOMAIN enum.res.tiles :
            i < j => enum.res.tiles[i].z <= enum.res.tiles[j].z

\* C26: in a bulk job every dispatched tile that has ended has incremented the
\* counter once, whichever way it ended, so the counter is the number of ended
\* tiles and never exceeds total; and savecomplete is fired at most once.
C26_CounterBoundSingleCompletion ==
    /\ [](\A j \in Jobs :
            /\ job[j].count + job[j].loading + job[j].putting = job[j].next
            /\ job[j].next <= job[j].total
            /\ job[j].count <= job[j].total
            /\ Len(job[j].complete) <= 1)
    /\ [][\A j \in Jobs :
            job'[j].count # job[j].count =>
                /\ job'[j].count = job[j].count + 1
                /\ job'[j].loading + job'[j].putting
                      = job[j].loading + job[j].putting - 1]_vars

\* a job of more than one batch has ended all its tiles, some stored and some
\* failed in each of the three ways, and has fired savecomplete once
C26_Witness ==
    \E j \in Jobs :
        /\ job[j].total > BatchSize
        /\ job[j].count = job[j].total
        /\ job[j].nProgress >= 1
        /\ job[j].nProgress <= job[j].count - 3
        /\ Len(job[j].complete) = 1

\* C24: a tile stored by a bulk save is found by a later createTile for the same
\* coordinates on the same layer: the two keys are equal.
C24_BulkAndInteractiveKeysAgree ==
    (bt.st = "read" /\ bt.coords = bt.tile) =>
        /\ bt.stored = {bt.key}
        /\ bt.hit

\* the tile (z 1, x 11, y 1) was saved and then found
C24_Witness ==
    /\ bt.st = "read"
    /\ bt.tile = [z |-> 1, x |-> 11, y |-> 1]
    /\ bt.coords = bt.tile
    /\ bt.hit

\* C22: the tilesCount that downloadCurrentMapArea computes is the number of
\* tile callbacks downloadLayerTiles delivers for each layer, so the progress
\* over both layers never exceeds 100 and is exactly 100 when every callback
\* has fired.
C22_TotalMatchesWork ==
    dl.st = "running" =>
        /\ dl.set.satellite = dl.tilesCount
        /\ dl.streetStarts >= 1 => dl.set.street = dl.tilesCount
        /\ dl.downloadedTiles <= dl.tilesCount * 2
        /\ dl.progress <= 100
        /\ (dl.pending.satellite = 0 /\ dl.pending.street = 0) =>
              /\ dl.downloadedTiles = dl.tilesCount * 2
              /\ dl.progress = 100

\* both layers of a view of more than 20 tiles over four zoom levels are downloaded
C22_Witness ==
    /\ dl.st = "running"
    /\ dl.maxZoom - dl.minZoom = 3
    /\ dl.tilesCount > 20
    /\ dl.pending.satellite = 0 /\ dl.pending.street = 0
    /\ dl.downloadedTiles = dl.tilesCount * 2

\* C23: the street layer's download is started once, when every satellite tile
\* callback has fired and not before, and the completion notice is scheduled
\* once, when all 2 * tilesCount tile callbacks have fired and not before.
C23_LayersInTurnOnce ==
    dl.st = "running" =>
        /\ dl.streetStarts <= 1
        /\ dl.streetStarts = 1 <=> dl.pending.satellite = 0
        /\ dl.streetStarts = 1 => dl.downloadedTiles >= dl.tilesCount
        /\ dl.notices <= 1
        /\ dl.notices = 1 <=>
              (dl.streetStarts = 1 /\ dl.pending.street = 0)
        /\ dl.notices = 1 => dl.downloadedTiles = dl.tilesCount * 2
        /\ dl.alerts <= dl.notices

\* the street layer is being downloaded after the satellite layer's last tile,
\* and later the notice has been shown
C23_Witness ==
    /\ dl.st = "running"
    /\ dl.tilesCount > 1
    /\ dl.streetStarts = 1
    /\ dl.notices = 1
    /\ dl.alerts = 1
    /\ ~dl.shown

\* C25 (as stated): after a bulk save has been started on the layer, every
\* network load of a tile created later has attempted a write-back once it has
\* loaded.
C25_EveryLaterLoadWritesBack ==
    \A c \in Calls :
        (tile[c].afterSave /\ tile[c].src = "net" /\ tile[c].load = "loaded")
            => "wb" \in tile[c].fetched

\* C25: a started bulk save leaves saveToCache (and the cacheDB) set on the
\* layer whatever they were before and however far the job gets; every
\* _loadTileAndCache of a tile created afterwards installs the handlers, and
\* once such a tile has loaded a write-back has been started; a layer without
\* useCache never runs _loadTileAndCache and never starts a write-back.
C25_BulkSaveSwitchesWriteBackOn ==
    /\ (\E j \in Jobs : job[j].st # "none") =>
            (options.saveToCache /\ options.cacheDB)
    /\ \A c \in Calls :
          /\ (tile[c].afterSave /\ "load" \in tile[c].fetched) => tile[c].handlers
          /\ (tile[c].afterSave /\ "load" \in tile[c].fetched
                /\ tile[c].load = "loaded") => "wb" \in tile[c].fetched
          /\ ~options.useCache =>
                ("load" \notin tile[c].fetched /\ "wb" \notin tile[c].fetched)

\* a bulk save of one tile that has not counted its tile yet, and a tile
\* created after its start whose network load ended and started a write-back
C25_Witness ==
    \E j \in Jobs, c \in Calls :
        /\ job[j].st = "running" /\ job[j].total = 1 /\ job[j].count = 0
        /\ tile[c].afterSave /\ tile[c].handlers
        /\ tile[c].src = "net" /\ tile[c].load = "loaded"
        /\ "wb" \in tile[c].fetched

====
